---- MODULE Spec2Model ----
(***************************************************************************)
(* Model of the THM1176 driver (api/thm_usbtmc_api.py, api/thm_visa_api.py)*)
(* and of its threaded caller (log_thm.py).                                *)
(*                                                                         *)
(* Conventions                                                             *)
(*   - a reply buffer (bytes or str) is a sequence of character codes;     *)
(*     Python indices are 0-based, so the helpers below take 0-based       *)
(*     indices and translate them;                                         *)
(*   - times are integers in units of 1e-7 s (TimeUnitNs nanoseconds), the *)
(*     finest grain at which the period inputs of the model differ;        *)
(*   - a command written on the transport is the string the code builds;   *)
(*   - a raised Python exception is the name of its class, "none" when the *)
(*     call returned.                                                      *)
(***************************************************************************)
EXTENDS Integers, Sequences, FiniteSets, TLC

(***************************************************************************)
(* Bounds of the model                                                     *)
(***************************************************************************)
\* largest block_size a caller supplies
MaxBlock == 2
\* fetch cycles begun on one driver object
MaxCycles == 2
\* error queries issued by one drain
MaxDrain == 2
\* calls of start_acquisition on one driver object
MaxRuns == 2
\* calls of setup after construction
MaxSetups == 1
\* snapshots of the accumulators the controlling thread takes
MaxReads == 1

(***************************************************************************)
(* Class attributes of Thm1176                                             *)
(***************************************************************************)
ranges == <<"0.1T", "0.3T", "1T", "3T">>

\* (122e-6, 2.79) seconds, in units of 1e-7 s
trigger_period_bounds == <<1220, 27900000>>

base_fetch_cmd == ":FETCh:ARRay:"

axes == <<"X", "Y", "Z">>

fetch_kinds == <<"Bx", "By", "Bz", "Timestamp", "Temperature">>

n_digits == 5

\* 'period': 0.5 s in units of 1e-7 s; 'format' is the usbtmc default
defaults == [block_size |-> 10, period |-> 5000000, range |-> "0.1T", average |-> 1, format |-> "INTEGER"]

\* nanoseconds per time unit of the model
TimeUnitNs == 100

\* the element numpy stores for the Python object None
NoneElem == -999999

\* last_reading[kind] before the first decode: None.  np.hstack turns None
\* into the one-element array [None].
None == <<NoneElem>>

(***************************************************************************)
(* Python sequence helpers (0-based)                                       *)
(***************************************************************************)
Min(a, b) == IF a <= b THEN a ELSE b

Max(a, b) == IF a >= b THEN a ELSE b

\* s[i:j] for 0 <= i
Slice(s, i, j) == IF i >= Min(j, Len(s)) THEN <<>> ELSE SubSeq(s, i + 1, Min(j, Len(s)))

\* s[i:]
SliceFrom(s, i) == Slice(s, Max(i, 0), Len(s))

\* s.find(c): the lowest index of c, -1 when absent
Find(s, c) == IF \E i \in 1..Len(s) : s[i] = c THEN (CHOOSE i \in 1..Len(s) : s[i] = c /\ \A j \in 1..(i - 1) : s[j] # c) - 1 ELSE -1

RECURSIVE Split(_, _)
\* s.split(c): the list of the fields between the separators
Split(s, c) == IF Find(s, c) < 0 THEN <<s>> ELSE <<Slice(s, 0, Find(s, c))>> \o Split(SliceFrom(s, Find(s, c) + 1), c)

\* s.replace(c, '')
Remove(s, c) == SelectSeq(s, LAMBDA x : x # c)

IsDigit(c) == c \in 48..57

AllDigits(s) == Len(s) > 0 /\ \A i \in 1..Len(s) : IsDigit(s[i])

RECURSIVE DigitsValue(_)
DigitsValue(s) == IF Len(s) = 0 THEN 0 ELSE 10 * DigitsValue(SubSeq(s, 1, Len(s) - 1)) + (s[Len(s)] - 48)

IsSpace(c) == c \in {9, 10, 13, 32}

\* s.strip()
Strip(s) == SelectSeq(s, LAMBDA c : ~IsSpace(c))

\* int(s) accepts white space around an optional sign and decimal digits
\* (underscores, and white space inside the number, are outside the inputs)
IntOk(s) == LET t == Strip(s) IN IF Len(t) > 0 /\ t[1] = 45 THEN AllDigits(Tail(t)) ELSE AllDigits(t)

IntValue(s) == LET t == Strip(s) IN IF t[1] = 45 THEN 0 - DigitsValue(Tail(t)) ELSE DigitsValue(t)

\* int(s, 0) reads s as a Python literal: a decimal literal with a leading
\* zero is accepted only when every digit is zero (the 0x, 0o and 0b
\* prefixes are outside the inputs)
IntLiteralOk(s) == IntOk(s) /\ LET t == Strip(s) d == IF t[1] = 45 THEN Tail(t) ELSE t IN d[1] = 48 => \A i \in 1..Len(d) : d[i] = 48

(***************************************************************************)
(* parse_ieee_block_header, from_binary_block                              *)
(***************************************************************************)
\* header_length = int(block[begin + 1:begin + 2]), 0 on ValueError
HeaderLength(block, begin) == IF AllDigits(Slice(block, begin + 1, begin + 2)) THEN DigitsValue(Slice(block, begin + 1, begin + 2)) ELSE 0

\* returns [exc, offset, data_length]
parse_ieee_block_header(block) ==
    LET begin == Find(block, 35)
        header_length == HeaderLength(block, begin)
        offset == begin + 2 + header_length
    IN  IF begin < 0 THEN [exc |-> "ValueError", offset |-> 0, data_length |-> 0]
        ELSE IF header_length > 0
             THEN IF IntOk(Slice(block, begin + 2, offset))
                  THEN [exc |-> "none", offset |-> offset, data_length |-> IntValue(Slice(block, begin + 2, offset))]
                  ELSE [exc |-> "ValueError", offset |-> 0, data_length |-> 0]
             ELSE [exc |-> "none", offset |-> offset, data_length |-> Len(block) - offset - 1]

\* four bytes read with the least significant byte first
Int32LE(b) == (IF b[4] >= 128 THEN b[4] - 256 ELSE b[4]) * 16777216 + b[3] * 65536 + b[2] * 256 + b[1]

\* one big-endian signed 32-bit integer from four bytes
Int32BE(b) == (IF b[1] >= 128 THEN b[1] - 256 ELSE b[1]) * 16777216 + b[2] * 65536 + b[3] * 256 + b[4]

\* int(data_length / element_length): truncation toward zero
TruncDiv(a, b) == IF a >= 0 THEN a \div b ELSE 0 - ((0 - a) \div b)

\* np.frombuffer(block, '>i', array_length, offset); returns [exc, arr]
from_binary_block(block, offset, data_length) ==
    LET array_length == TruncDiv(data_length, 4)
        avail == Len(block) - offset
        count == IF array_length < 0 THEN avail \div 4 ELSE array_length
    IN  IF offset < 0 \/ offset > Len(block) THEN [exc |-> "ValueError", arr |-> <<>>]
        ELSE IF array_length < 0 /\ avail % 4 # 0 THEN [exc |-> "ValueError", arr |-> <<>>]
        ELSE IF count * 4 > avail THEN [exc |-> "ValueError", arr |-> <<>>]
        ELSE [exc |-> "none", arr |-> [i \in 1..count |-> Int32BE(Slice(block, offset + 4 * (i - 1), offset + 4 * i))]]

(***************************************************************************)
(* Thm1176.str_conv                                                        *)
(***************************************************************************)
\* np.linspace with endpoint=False
linspace_OpenEnd(start, stop, num) == [i \in 1..num |-> start + (i - 1) * ((stop - start) \div num)]

\* np.linspace(start, stop, num): step = (stop - start) / (num - 1), the
\* elements start + i * step, and the last element set to stop
linspace(start, stop, num) == IF num = 1 THEN <<start>> ELSE [i \in 1..num |-> IF i = num THEN stop ELSE start + (i - 1) * ((stop - start) \div (num - 1))]

\* np.fromstring(text, sep=','): the numbers up to the first token that is
\* not a number
RECURSIVE FromString(_)
FromString(toks) == IF Len(toks) = 0 \/ ~IntOk(Head(toks)) THEN <<>> ELSE <<IntValue(Head(toks))>> \o FromString(Tail(toks))

\* returns [exc, res]
str_conv(block_size, period, input_str, kind) ==
    IF kind = "Timestamp"
    THEN IF IntLiteralOk(input_str)
         THEN LET val == IntValue(input_str) \div TimeUnitNs
                  time_offset == val - (block_size - 1) * period
              IN  [exc |-> "none", res |-> linspace(time_offset, val, block_size)]
         ELSE [exc |-> "ValueError", res |-> <<>>]
    ELSE IF kind = "Temperature"
    THEN IF IntOk(input_str)
         THEN [exc |-> "none", res |-> [i \in 1..block_size |-> IntValue(input_str)]]
         ELSE [exc |-> "ValueError", res |-> <<>>]
    ELSE [exc |-> "none", res |-> FromString(Split(Remove(input_str, 84), 44))]

(***************************************************************************)
(* Thm1176.parse_binary_responses, Thm1176.parse_ascii_responses           *)
(* A decode works on last_reading key by key, so an exception leaves the   *)
(* keys assigned before it.  Both return [lr, exc, drain]: the new         *)
(* last_reading, the exception raised ("none" when the decode returned)    *)
(* and whether the status field asks for the error drain.                  *)
(***************************************************************************)
\* bytes.decode('ascii') raises on a byte above 127
Ascii(s) == \A i \in 1..Len(s) : s[i] < 128

\* parsed[-1]
Last(s) == s[Len(s)]

RECURSIVE BinaryBlocks(_, _, _, _)
\* the loop over fetch_kinds[:3]; idx is 1-based; returns [lr, exc, glob_offset]
BinaryBlocks(lr, res_in, idx, glob_offset) ==
    IF idx > 3 THEN [lr |-> lr, exc |-> "none", glob_offset |-> glob_offset]
    ELSE LET h == parse_ieee_block_header(res_in)
             g == glob_offset + h.offset
             b == from_binary_block(res_in, g, h.data_length)
         IN  IF h.exc # "none" THEN [lr |-> lr, exc |-> h.exc, glob_offset |-> glob_offset]
             ELSE IF b.exc # "none" THEN [lr |-> lr, exc |-> b.exc, glob_offset |-> g]
             ELSE BinaryBlocks([lr EXCEPT ![fetch_kinds[idx]] = b.arr], res_in, idx + 1, g + h.data_length + 4)

RECURSIVE TailFields(_, _, _, _, _, _)
\* the loop over kinds[from..]: last_reading[key] = str_conv(parsed[idx], key)
\* with idx 1-based; returns [lr, exc]
TailFields(lr, block_size, period, parsed, kinds, idx) ==
    IF idx > Len(kinds) THEN [lr |-> lr, exc |-> "none"]
    ELSE IF idx > Len(parsed) THEN [lr |-> lr, exc |-> "IndexError"]
    ELSE IF ~Ascii(parsed[idx]) THEN [lr |-> lr, exc |-> "UnicodeDecodeError"]
    ELSE LET c == str_conv(block_size, period, parsed[idx], kinds[idx])
         IN  IF c.exc # "none" THEN [lr |-> lr, exc |-> c.exc]
             ELSE TailFields([lr EXCEPT ![kinds[idx]] = c.res], block_size, period, parsed, kinds, idx + 1)

parse_binary_responses(lr, block_size, period, res_in) ==
    LET blocks == BinaryBlocks(lr, res_in, 1, 0)
        glob_offset == blocks.glob_offset - 3
        parsed == Split(SliceFrom(res_in, glob_offset), 59)
        tail == TailFields(blocks.lr, block_size, period, parsed, SubSeq(fetch_kinds, 4, 5), 1)
    IN  IF blocks.exc # "none" THEN [lr |-> blocks.lr, exc |-> blocks.exc, drain |-> FALSE]
        ELSE IF tail.exc # "none" THEN [lr |-> tail.lr, exc |-> tail.exc, drain |-> FALSE]
        ELSE IF ~Ascii(Last(parsed)) THEN [lr |-> tail.lr, exc |-> "UnicodeDecodeError", drain |-> FALSE]
        ELSE [lr |-> tail.lr, exc |-> "none", drain |-> Split(Last(parsed), 10)[1] = <<52>>]

parse_ascii_responses(lr, block_size, period, res_in) ==
    LET parsed == Split(res_in, 59)
        fields == TailFields(lr, block_size, period, parsed, fetch_kinds, 1)
    IN  IF fields.exc # "none" THEN [lr |-> fields.lr, exc |-> fields.exc, drain |-> FALSE]
        ELSE [lr |-> fields.lr, exc |-> "none", drain |-> Last(parsed) = <<52>>]

(***************************************************************************)
(* The device's side of the wire: the replies the transport can deliver.   *)
(***************************************************************************)
RECURSIVE Decimal(_)
\* the decimal digits of n >= 0
Decimal(n) == IF n < 10 THEN <<48 + n>> ELSE Decimal(n \div 10) \o <<48 + (n % 10)>>

\* a signed decimal number as text
Number(v) == IF v < 0 THEN <<45>> \o Decimal(0 - v) ELSE Decimal(v)

RECURSIVE ZeroPad(_, _)
ZeroPad(s, width) == IF Len(s) >= width THEN s ELSE ZeroPad(<<48>> \o s, width)

\* the four big-endian bytes of a signed 32-bit integer
Int32Bytes(v) ==
    LET hi == v \div 16777216
        lo == v - hi * 16777216
    IN  <<IF hi < 0 THEN hi + 256 ELSE hi, lo \div 65536, (lo \div 256) % 256, lo % 256>>

RECURSIVE Payload(_)
Payload(vals) == IF Len(vals) = 0 THEN <<>> ELSE Int32Bytes(Head(vals)) \o Payload(Tail(vals))

\* #<header_length><data_length><data>
Block(header_length, vals) == <<35, 48 + header_length>> \o ZeroPad(Decimal(4 * Len(vals)), header_length) \o Payload(vals)

\* the bytes between two blocks
Separator == <<59, 32, 32, 32>>

\* timestamp;temperature;status
AsciiTail(ts_ns, temp, status) == Decimal(ts_ns) \o <<59>> \o Number(temp) \o <<59>> \o <<48 + status>>

\* the reply to the fetch command under :FORMAT:DATA INTEGER
BinaryReply(header_length, x, y, z, ts_ns, temp, status) ==
    Block(header_length, x) \o Separator \o Block(header_length, y) \o Separator \o Block(header_length, z) \o <<59>> \o AsciiTail(ts_ns, temp, status) \o <<10>>

\* a binary reply with lead bytes before the first block and a header
\* length of its own for each block
MixedReply(lead, hs, x, y, z, ts_ns, temp, status) ==
    lead \o Block(hs[1], x) \o Separator \o Block(hs[2], y) \o Separator \o Block(hs[3], z) \o <<59>> \o AsciiTail(ts_ns, temp, status) \o <<10>>

RECURSIVE CommaList(_)
CommaList(vals) == IF Len(vals) = 1 THEN Number(vals[1]) ELSE Number(Head(vals)) \o <<44>> \o CommaList(Tail(vals))

\* the reply to the fetch command under :FORMAT:DATA ASCII; the unit
\* letter T ends each axis field
AsciiReply(x, y, z, ts_ns, temp, status) ==
    CommaList(x) \o <<84, 59>> \o CommaList(y) \o <<84, 59>> \o CommaList(z) \o <<84, 59>> \o AsciiTail(ts_ns, temp, status)

(***************************************************************************)
(* Configuration: Thm1176.setup and the commands it writes                 *)
(* The keyword arguments of a call are a record: keys is the set of the    *)
(* keywords supplied, and the field of a keyword holds its value (the      *)
(* fields of the keywords left out are not read).                          *)
(***************************************************************************)
Keys == {"block_size", "period", "range", "average", "format"}

\* '{:f}'.format(period): six decimals, so the period is rounded to the
\* microsecond (10 time units)
Micros(period) == (period + 5) \div 10

SixDigits(n) == (IF n < 100000 THEN "0" ELSE "") \o (IF n < 10000 THEN "0" ELSE "") \o (IF n < 1000 THEN "0" ELSE "") \o (IF n < 100 THEN "0" ELSE "") \o (IF n < 10 THEN "0" ELSE "") \o ToString(n)

FormatF(period) == ToString(Micros(period) \div 1000000) \o "." \o SixDigits(Micros(period) % 1000000)

PeriodValid(p) == trigger_period_bounds[1] <= p /\ p <= trigger_period_bounds[2]

set_format(format) == ":FORMAT:DATA " \o format

set_range(range) == ":SENSe:FLUX:RANGe " \o range

set_average(average) == ":AVERAGE:COUNT " \o ToString(average)

\* set_periodic_trigger with the count sent before the timer
set_periodic_trigger_CountFirst(block_size, period) ==
    IF PeriodValid(period)
    THEN [writes |-> <<":TRIGger:SOURce TIMer", ":TRIG:COUNT " \o ToString(block_size), ":TRIGger:TIMer " \o FormatF(period) \o "S", ":INIT:CONTINUOUS ON">>, prints |-> <<>>, ret |-> TRUE]
    ELSE [writes |-> <<>>, prints |-> <<"Invalid trigger period value.">>, ret |-> FALSE]

\* returns [writes, prints, ret]
set_periodic_trigger(block_size, period) ==
    IF PeriodValid(period)
    THEN [writes |-> <<":TRIGger:SOURce TIMer", ":TRIGger:TIMer " \o FormatF(period) \o "S", ":TRIG:COUNT " \o ToString(block_size), ":INIT:CONTINUOUS ON">>, prints |-> <<>>, ret |-> TRUE]
    ELSE [writes |-> <<>>, prints |-> <<"Invalid trigger period value.">>, ret |-> FALSE]

\* the fields of the object after the keyword part of setup
SetupBlockSize(old, kw) == IF "block_size" \in kw.keys THEN kw.block_size ELSE old

\* the period part of setup with an out-of-range value clamped to the
\* nearer bound
SetupPeriod_Clamps(old, kw) == IF "period" \in kw.keys THEN Max(trigger_period_bounds[1], Min(kw.period, trigger_period_bounds[2])) ELSE old

SetupPeriod(old, kw) == IF "period" \in kw.keys THEN (IF PeriodValid(kw.period) THEN kw.period ELSE defaults.period) ELSE old

\* the range part of setup without the membership test
SetupRange_Unchecked(old, kw) == IF "range" \in kw.keys THEN kw.range ELSE old

SetupRange(old, kw) == IF "range" \in kw.keys /\ (\E i \in 1..Len(ranges) : ranges[i] = kw.range) THEN kw.range ELSE old

SetupAverage(old, kw) == IF "average" \in kw.keys THEN kw.average ELSE old

SetupFormat(old, kw) == IF "format" \in kw.keys THEN kw.format ELSE old

\* what the keyword part of setup prints
SetupPrints(kw) == IF "period" \in kw.keys /\ ~PeriodValid(kw.period) THEN <<"Invalid trigger period value.", "Setting to default...">> ELSE <<>>

\* the commands of setup with the range sent before the format
SetupWrites_RangeFirst(bs, p, r, a, f) == <<set_range(r), set_format(f), set_average(a)>> \o set_periodic_trigger(bs, p).writes

\* the commands setup writes, in order, for the fields it has stored
SetupWrites(bs, p, r, a, f) == <<set_format(f), set_range(r), set_average(a)>> \o set_periodic_trigger(bs, p).writes

\* the fetch command with the axes in the order Z, Y, X
FetchCmd_ZYX(bs) ==
    base_fetch_cmd \o axes[3] \o "? " \o ToString(bs) \o "," \o ToString(n_digits) \o ";" \o
    base_fetch_cmd \o axes[2] \o "? " \o ToString(bs) \o "," \o ToString(n_digits) \o ";" \o
    base_fetch_cmd \o axes[1] \o "? " \o ToString(bs) \o "," \o ToString(n_digits) \o ";" \o
    ":FETCH:TIMESTAMP?;:FETCH:TEMPERATURE?;*STB?"

\* the fetch command setup builds
FetchCmd(bs) ==
    base_fetch_cmd \o axes[1] \o "? " \o ToString(bs) \o "," \o ToString(n_digits) \o ";" \o
    base_fetch_cmd \o axes[2] \o "? " \o ToString(bs) \o "," \o ToString(n_digits) \o ";" \o
    base_fetch_cmd \o axes[3] \o "? " \o ToString(bs) \o "," \o ToString(n_digits) \o ";" \o
    ":FETCH:TIMESTAMP?;:FETCH:TEMPERATURE?;*STB?"

(***************************************************************************)
(* Inputs: the keyword arguments callers supply                            *)
(***************************************************************************)
BlockSizes == 1..MaxBlock

\* 121.9 us and 2.7900001 s lie outside the bounds; 122 us and 2.79 s are
\* the bounds; 122.4 us is not a whole number of microseconds; 0.05 s is
\* the period of log_thm.py
PeriodInputs == {1219, 1220, 1224, 500000, 27900000, 27900001}

RangeInputs == {"0.3T", "5T"}

AverageInputs == {4}

FormatInputs == {"ASCII", "INTEGER", "BINARY"}

Kwargs(keys, b, p, r, a, f) == [keys |-> keys, block_size |-> b, period |-> p, range |-> r, average |-> a, format |-> f]

\* calls without the period keyword: no keyword, one keyword, or the four
\* of them
Profiles ==
    {Kwargs({}, defaults.block_size, defaults.period, defaults.range, defaults.average, defaults.format)}
    \cup {Kwargs({"block_size"}, b, defaults.period, defaults.range, defaults.average, defaults.format) : b \in BlockSizes}
    \cup {Kwargs({"range"}, defaults.block_size, defaults.period, r, defaults.average, defaults.format) : r \in RangeInputs}
    \cup {Kwargs({"average"}, defaults.block_size, defaults.period, defaults.range, a, defaults.format) : a \in AverageInputs}
    \cup {Kwargs({"format"}, defaults.block_size, defaults.period, defaults.range, defaults.average, "ASCII")}
    \cup {Kwargs(Keys \ {"period"}, 1, defaults.period, "3T", 4, "ASCII")}

WithPeriod(kw, p) == [kw EXCEPT !.keys = @ \cup {"period"}, !.period = p]

\* every call of the configuration specification: a profile, with or
\* without a period
AllKwargs == Profiles \cup {WithPeriod(kw, p) : kw \in Profiles, p \in PeriodInputs}

\* params of log_thm.py, with the block size and the format varied
RunKwargs == {[keys |-> Keys, block_size |-> b, period |-> 500000, range |-> "0.1T", average |-> 4, format |-> f] : b \in BlockSizes, f \in FormatInputs}

(***************************************************************************)
(* Inputs: the replies of the device                                       *)
(***************************************************************************)
\* two sample cycles of n values per axis that differ in every value
CycleA(n) == [x |-> [i \in 1..n |-> 10 + i], y |-> [i \in 1..n |-> 20 + i], z |-> [i \in 1..n |-> 0 - (30 + i)], ts |-> 2000000000, temp |-> 25]

CycleB(n) == [x |-> [i \in 1..n |-> 40 + i], y |-> [i \in 1..n |-> 34 + i], z |-> [i \in 1..n |-> 0 - i], ts |-> 1500000000, temp |-> 0 - 3]

\* the number of digits the device needs for the byte count of n values
HeaderDigits(n) == Len(Decimal(4 * n))

WellFormed(format, c, status) ==
    IF format = "INTEGER" THEN BinaryReply(HeaderDigits(Len(c.x)), c.x, c.y, c.z, c.ts, c.temp, status)
    ELSE AsciiReply(c.x, c.y, c.z, c.ts, c.temp, status)

\* a binary reply without any '#'
NoHash(c) == Remove(WellFormed("INTEGER", c, 0), 35)

\* a binary reply cut two bytes before the end of the second block
Truncated(c) == Slice(WellFormed("INTEGER", c, 0), 0, 2 * Len(Block(HeaderDigits(Len(c.x)), c.x)) + Len(Separator) - 2)

\* a binary reply whose timestamp field is not a number
BadTimestamp(c) == Block(HeaderDigits(Len(c.x)), c.x) \o Separator \o Block(HeaderDigits(Len(c.x)), c.y) \o Separator \o Block(HeaderDigits(Len(c.x)), c.z) \o <<59, 88, 59>> \o Number(c.temp) \o <<59, 48, 10>>

\* a binary reply that ends after the timestamp field
MissingField(c) == Block(HeaderDigits(Len(c.x)), c.x) \o Separator \o Block(HeaderDigits(Len(c.x)), c.y) \o Separator \o Block(HeaderDigits(Len(c.x)), c.z) \o <<59>> \o Decimal(c.ts) \o <<10>>

\* an ASCII reply that ends after the second axis
AsciiMissingField(c) == CommaList(c.x) \o <<84, 59>> \o CommaList(c.y) \o <<84>>

\* an ASCII reply whose timestamp field is not a number
AsciiBadTimestamp(c) == CommaList(c.x) \o <<84, 59>> \o CommaList(c.y) \o <<84, 59>> \o CommaList(c.z) \o <<84, 59, 88, 59>> \o Number(c.temp) \o <<59, 48>>

WellFormedReplies(format, n) == {WellFormed(format, CycleA(n), 0), WellFormed(format, CycleB(n), 4)}

MalformedReplies(format, n) ==
    IF format = "INTEGER" THEN {NoHash(CycleB(n)), Truncated(CycleB(n)), BadTimestamp(CycleB(n)), MissingField(CycleB(n))}
    ELSE {AsciiMissingField(CycleB(n)), AsciiBadTimestamp(CycleB(n))}

\* what read / read_raw can return for the fetch command
FetchReplies(format, n) == WellFormedReplies(format, n) \cup MalformedReplies(format, n)

\* the largest header length one digit can state
MaxHeaderLength == 9

\* the layouts of a binary reply: [lead, hs] with the bytes before the first
\* '#' and the header length of each block.  Uniform: no lead and one
\* header length, from the digits the byte count needs up to nine; Mixed:
\* header lengths that differ between the blocks; Leading: a line end
\* before the first '#'
UniformLayouts(n) == {[lead |-> <<>>, hs |-> <<h, h, h>>] : h \in HeaderDigits(n)..MaxHeaderLength}

MixedLayouts(n) == {[lead |-> <<>>, hs |-> <<h1, h2, h3>>] : h1 \in HeaderDigits(n)..(HeaderDigits(n) + 1), h2 \in HeaderDigits(n)..(HeaderDigits(n) + 1), h3 \in HeaderDigits(n)..(HeaderDigits(n) + 1)}

LeadingLayouts(n) == {[lead |-> <<10>>, hs |-> <<h, h, h>>] : h \in HeaderDigits(n)..(HeaderDigits(n) + 1)}

Layouts(n) == UniformLayouts(n) \cup MixedLayouts(n) \cup LeadingLayouts(n)

\* the timestamp fields (nanoseconds) and the temperature fields handed to
\* str_conv
TimestampFields == {Decimal(0), Decimal(1500000000), Decimal(2000000000)}

TemperatureFields == {Number(0 - 3), Number(25)}

\* what the device answers to ':SYSTEM:ERROR?;*STB?': "0" (no error left),
\* "-1" (an error code) and the empty reply
ErrorReplies == {<<48>>, <<45, 49>>, <<>>}

(***************************************************************************)
(* State                                                                   *)
(***************************************************************************)
VARIABLES
    running, stop,                                   \* Thm1176 flags
    block_size, period, range, average, format,      \* Thm1176 configuration
    fetch_cmd,
    last_reading, data_stack, errors,
    pc, exc,            \* the acquisition thread: its position, and the exception that ended it
    wire,               \* history: the transport since the Run began, a command per write and Reply per read
    last_setup,         \* history: the latest setup call [kw, prior, writes, prints, exc]
    setups,             \* history: the number of setup calls after construction
    run,                \* history of the Run (see NewRun)
    cyc,                \* history of the fetch cycle (see NewCycle)
    ctl,                \* the controlling thread: its position and its locals (see NewCaller)
    sample              \* history: the input and the result of a decoder applied on its own

config == <<block_size, period, range, average, format, fetch_cmd>>

vars == <<running, stop, block_size, period, range, average, format, fetch_cmd, last_reading, data_stack, errors, pc, exc, wire, last_setup, setups, run, cyc, ctl, sample>>

KindSet == {fetch_kinds[i] : i \in 1..Len(fetch_kinds)}

NoReading == [k \in KindSet |-> <<>>]

\* the entry of wire for a reply read from the transport
Reply == "<reply>"

\* n: the calls of start_acquisition so far; crashed: an earlier Run was
\* ended by an exception; appended: the decoded cycle of each completed
\* iteration of this Run, in order; stop_pending: the controller wrote
\* stop = True since the thread was started; late_cycle: a cycle began
\* although stop_pending
NewRun(n, crashed) == [n |-> n, crashed |-> crashed, appended |-> <<>>, stop_pending |-> FALSE, late_cycle |-> FALSE]

\* n: the fetch cycles begun so far; got: the fetch reply was read, and res
\* is that reply; fetched: its decode returned, and decoded is what it
\* assigned; queries: the error queries answered in this cycle;
\* stack_before, reading_before, errors_before: data_stack, last_reading
\* and the length of errors when the cycle began
NewCycle(n, stack, reading, errs) == [n |-> n, got |-> FALSE, res |-> <<>>, fetched |-> FALSE, decoded |-> NoReading, queries |-> 0, stack_before |-> stack, reading_before |-> reading, errors_before |-> errs]

\* pc: "new" after construction, "idn" between the write and the read of
\* get_id, "main" from then on, "axes" between the two reads of the
\* accumulators, "check" and "check_read" inside check_error; queries: the
\* error queries check_error has had answered; reads: the snapshots taken;
\* plotdata, timeline: the locals of log_thm.py that hold what was read
NewCaller == [pc |-> "new", queries |-> 0, reads |-> 0, plotdata |-> <<>>, timeline |-> <<>>]

\* no decoder was applied on its own
NoSample == [op |-> "none"]

\* the five configuration fields of the object
Stored(b, p, r, a, f) == [block_size |-> b, period |-> p, range |-> r, average |-> a, format |-> f]

\* the thread exists and has not ended
Alive == pc \notin {"idle", "failed"}

(***************************************************************************)
(* Thm1176.__init__: the defaults, then setup with its keywords            *)
(***************************************************************************)
InitWith(kwargs) ==
    \E kw \in kwargs :
        /\ running = FALSE
        /\ stop = FALSE
        /\ block_size = SetupBlockSize(defaults.block_size, kw)
        /\ period = SetupPeriod(defaults.period, kw)
        /\ range = SetupRange(defaults.range, kw)
        /\ average = SetupAverage(defaults.average, kw)
        /\ format = SetupFormat(defaults.format, kw)
        /\ fetch_cmd = FetchCmd(block_size)
        /\ last_reading = [k \in KindSet |-> None]
        /\ data_stack = [k \in KindSet |-> <<>>]
        /\ errors = <<>>
        /\ pc = "idle"
        /\ exc = "none"
        /\ wire = <<>>
        /\ last_setup = [kw |-> kw, prior |-> Stored(defaults.block_size, defaults.period, defaults.range, defaults.average, defaults.format), writes |-> SetupWrites(block_size, period, range, average, format), prints |-> SetupPrints(kw) \o set_periodic_trigger(block_size, period).prints, exc |-> "none"]
        /\ setups = 0
        /\ run = NewRun(0, FALSE)
        /\ cyc = NewCycle(0, data_stack, last_reading, 0)
        /\ ctl = NewCaller
        /\ sample = NoSample

Init == InitWith(RunKwargs)

(***************************************************************************)
(* Thm1176.setup, called by the controlling thread while no acquisition    *)
(* thread runs.  fail = 0: every write succeeds; fail = i: the i-th write  *)
(* raises, so the fields are stored, the writes before it are made and     *)
(* fetch_cmd is not rebuilt.                                               *)
(***************************************************************************)
setup(kw, fail) ==
    LET bs == SetupBlockSize(block_size, kw)
        p == SetupPeriod(period, kw)
        r == SetupRange(range, kw)
        a == SetupAverage(average, kw)
        f == SetupFormat(format, kw)
        writes == SetupWrites(bs, p, r, a, f)
        trig == set_periodic_trigger(bs, p)
    IN  /\ ~Alive
        /\ setups < MaxSetups
        /\ fail <= Len(writes)
        /\ setups' = setups + 1
        /\ block_size' = bs
        /\ period' = p
        /\ range' = r
        /\ average' = a
        /\ format' = f
        /\ IF fail = 0
           THEN /\ fetch_cmd' = FetchCmd(bs)
                /\ last_setup' = [kw |-> kw, prior |-> Stored(block_size, period, range, average, format), writes |-> writes, prints |-> SetupPrints(kw) \o trig.prints, exc |-> "none"]
           ELSE /\ fetch_cmd' = fetch_cmd
                /\ last_setup' = [kw |-> kw, prior |-> Stored(block_size, period, range, average, format), writes |-> SubSeq(writes, 1, fail - 1), prints |-> SetupPrints(kw) \o (IF fail > 3 THEN trig.prints ELSE <<>>), exc |-> "TransportError"]
        /\ UNCHANGED <<running, stop, last_reading, data_stack, errors, pc, exc, wire, run, cyc, ctl, sample>>

\* a setup call whose writes all succeed
SetupAny == \E kw \in AllKwargs : setup(kw, 0)

\* a setup call with the keywords of log_thm.py one of whose writes (at
\* most seven) raises
SetupFails == \E kw \in {k \in RunKwargs : k.format = "INTEGER"}, fail \in 1..7 : setup(kw, fail)

(***************************************************************************)
(* The controlling thread (log_thm.py)                                     *)
(***************************************************************************)
\* device_id = thm.get_id(): self.write('*IDN?')
get_id ==
    /\ ctl.pc = "new"
    /\ wire' = Append(wire, "*IDN?")
    /\ ctl' = [ctl EXCEPT !.pc = "idn"]
    /\ UNCHANGED <<running, stop, config, last_reading, data_stack, errors, pc, exc, last_setup, setups, run, cyc, sample>>

\* get_id: res = self.read() and the split of the reply into id_fields
get_id_read ==
    /\ ctl.pc = "idn"
    /\ wire' = Append(wire, Reply)
    /\ ctl' = [ctl EXCEPT !.pc = "main"]
    /\ UNCHANGED <<running, stop, config, last_reading, data_stack, errors, pc, exc, last_setup, setups, run, cyc, sample>>

\* Start with the error log emptied for the new Run
Start_ClearsLog ==
    /\ ctl.pc = "main"
    /\ ~Alive
    /\ run.n < MaxRuns
    /\ pc' = "start"
    /\ exc' = "none"
    /\ wire' = <<>>
    /\ errors' = <<>>
    /\ run' = NewRun(run.n + 1, run.crashed \/ pc = "failed")
    /\ cyc' = NewCycle(cyc.n, data_stack, last_reading, 0)
    /\ UNCHANGED <<running, stop, config, last_reading, data_stack, last_setup, setups, ctl, sample>>

\* threading.Thread(target=thm.start_acquisition).start()
Start ==
    /\ ctl.pc = "main"
    /\ ~Alive
    /\ run.n < MaxRuns
    /\ pc' = "start"
    /\ exc' = "none"
    /\ wire' = <<>>
    /\ run' = NewRun(run.n + 1, run.crashed \/ pc = "failed")
    /\ cyc' = NewCycle(cyc.n, data_stack, last_reading, Len(errors))
    /\ UNCHANGED <<running, stop, config, last_reading, data_stack, errors, last_setup, setups, ctl, sample>>

\* thm.stop = True
SetStop ==
    /\ ctl.pc = "main"
    /\ stop' = TRUE
    /\ run' = [run EXCEPT !.stop_pending = @ \/ Alive]
    /\ UNCHANGED <<running, config, last_reading, data_stack, errors, pc, exc, wire, last_setup, setups, ctl, sample, cyc>>

(***************************************************************************)
(* Thm1176.start_acquisition, statement by statement                       *)
(***************************************************************************)
\* self.running = True
SetRunning ==
    /\ pc = "start"
    /\ running' = TRUE
    /\ pc' = "clear"
    /\ UNCHANGED <<stop, config, last_reading, data_stack, errors, exc, wire, last_setup, setups, ctl, sample, run, cyc>>

\* self.stop = False
ClearStop ==
    /\ pc = "clear"
    /\ stop' = FALSE
    /\ pc' = "init"
    /\ UNCHANGED <<running, config, last_reading, data_stack, errors, exc, wire, last_setup, setups, ctl, sample, run, cyc>>

\* self.write(':INIT')
WriteInit ==
    /\ pc = "init"
    /\ wire' = Append(wire, ":INIT")
    /\ pc' = "head"
    /\ UNCHANGED <<running, stop, config, last_reading, data_stack, errors, exc, last_setup, setups, ctl, sample, run, cyc>>

\* while not self.stop: the flag is read once per iteration
LoopHead ==
    /\ pc = "head"
    /\ IF stop
       THEN /\ pc' = "abort"
            /\ UNCHANGED <<run, cyc>>
       ELSE /\ cyc.n < MaxCycles
            /\ pc' = "fetch"
            /\ cyc' = NewCycle(cyc.n + 1, data_stack, last_reading, Len(errors))
            /\ run' = [run EXCEPT !.late_cycle = @ \/ run.stop_pending]
    /\ UNCHANGED <<running, stop, config, last_reading, data_stack, errors, exc, wire, last_setup, setups, ctl, sample>>

\* get_data_array that sends the fetch command and leaves its reply unread
get_data_array_Pipelined ==
    /\ pc = "fetch"
    /\ wire' = Append(wire, fetch_cmd)
    /\ pc' = "append"
    /\ UNCHANGED <<running, stop, config, last_reading, data_stack, errors, exc, last_setup, setups, ctl, sample, run, cyc>>

\* get_data_array sends the fetch command only when running and when the
\* format is one of the two it knows
Fetches == running /\ format \in {"ASCII", "INTEGER"}

\* get_data_array up to the write of the fetch command
get_data_array ==
    /\ pc = "fetch"
    /\ IF Fetches
       THEN /\ wire' = Append(wire, fetch_cmd)
            /\ pc' = "read"
       ELSE /\ pc' = "append"
            /\ UNCHANGED wire
    /\ UNCHANGED <<running, stop, config, last_reading, data_stack, errors, exc, last_setup, setups, ctl, sample, run, cyc>>

\* the decoder get_data_array applies to the reply
Decode(res) == IF format = "ASCII" THEN parse_ascii_responses(last_reading, block_size, period, res) ELSE parse_binary_responses(last_reading, block_size, period, res)

\* FetchRead with the exception of the decoder caught and passed over
FetchRead_Swallows ==
    /\ pc = "read"
    /\ \E res \in FetchReplies(format, block_size) :
        LET d == Decode(res)
        IN  /\ last_reading' = d.lr
            /\ wire' = Append(wire, Reply)
            /\ pc' = IF d.drain THEN "drain" ELSE "append"
            /\ exc' = exc
            /\ cyc' = [cyc EXCEPT !.got = TRUE, !.res = res, !.fetched = (d.exc = "none"), !.decoded = d.lr]
    /\ UNCHANGED <<running, stop, config, data_stack, errors, last_setup, setups, ctl, sample, run>>

\* get_data_array from the read of the reply to the end of the decode; an
\* exception of the decoder ends the thread
FetchRead ==
    /\ pc = "read"
    /\ \E res \in FetchReplies(format, block_size) :
        LET d == Decode(res)
        IN  /\ last_reading' = d.lr
            /\ wire' = Append(wire, Reply)
            /\ IF d.exc # "none"
               THEN /\ pc' = "failed"
                    /\ exc' = d.exc
                    /\ cyc' = [cyc EXCEPT !.got = TRUE, !.res = res]
               ELSE /\ pc' = IF d.drain THEN "drain" ELSE "append"
                    /\ exc' = exc
                    /\ cyc' = [cyc EXCEPT !.got = TRUE, !.res = res, !.fetched = TRUE, !.decoded = d.lr]
    /\ UNCHANGED <<running, stop, config, data_stack, errors, last_setup, setups, ctl, sample, run>>

\* DrainAsk with the stop flag consulted before the query
DrainAsk_ChecksStop ==
    /\ pc = "drain"
    /\ cyc.queries < MaxDrain
    /\ IF stop
       THEN /\ pc' = "abort"
            /\ UNCHANGED wire
       ELSE /\ wire' = Append(wire, ":SYSTEM:ERROR?;*STB?")
            /\ pc' = "drain_read"
    /\ UNCHANGED <<running, stop, config, last_reading, data_stack, errors, exc, last_setup, setups, ctl, sample, run, cyc>>

\* res = self.ask(':SYSTEM:ERROR?;*STB?'): the write
DrainAsk ==
    /\ pc = "drain"
    /\ cyc.queries < MaxDrain
    /\ wire' = Append(wire, ":SYSTEM:ERROR?;*STB?")
    /\ pc' = "drain_read"
    /\ UNCHANGED <<running, stop, config, last_reading, data_stack, errors, exc, last_setup, setups, ctl, sample, run, cyc>>

\* DrainRead without the while loop: one query, whatever the reply
DrainRead_Once ==
    /\ pc = "drain_read"
    /\ \E res \in ErrorReplies :
        /\ errors' = Append(errors, res)
        /\ wire' = Append(wire, Reply)
        /\ cyc' = [cyc EXCEPT !.queries = @ + 1]
        /\ pc' = "append"
        /\ exc' = exc
    /\ UNCHANGED <<running, stop, config, last_reading, data_stack, last_setup, setups, ctl, sample, run>>

\* the read of the ask, self.errors.append(res), and the test res[0] != '0'
\* (IndexError on an empty reply)
DrainRead ==
    /\ pc = "drain_read"
    /\ \E res \in ErrorReplies :
        /\ errors' = Append(errors, res)
        /\ wire' = Append(wire, Reply)
        /\ cyc' = [cyc EXCEPT !.queries = @ + 1]
        /\ IF Len(res) = 0
           THEN pc' = "failed" /\ exc' = "IndexError"
           ELSE pc' = (IF res[1] # 48 THEN "drain" ELSE "append") /\ exc' = exc
    /\ UNCHANGED <<running, stop, config, last_reading, data_stack, last_setup, setups, ctl, sample, run>>

\* np.hstack((self.data_stack[key], self.last_reading[key])) for one key
hstack(stack, reading) == stack \o reading

\* AppendStack with the stop flag consulted before the append
AppendStack_ChecksStop ==
    /\ pc = "append"
    /\ IF stop
       THEN /\ pc' = "abort"
            /\ UNCHANGED <<data_stack, run>>
       ELSE /\ data_stack' = [k \in KindSet |-> data_stack[k] \o last_reading[k]]
            /\ run' = [run EXCEPT !.appended = Append(@, cyc.decoded)]
            /\ pc' = "head"
    /\ UNCHANGED <<running, stop, config, last_reading, errors, exc, wire, last_setup, setups, ctl, sample, cyc>>

\* self.data_stack = {key: np.hstack(...) for key in self.fetch_kinds}
AppendStack ==
    /\ pc = "append"
    /\ data_stack' = [k \in KindSet |-> hstack(data_stack[k], last_reading[k])]
    /\ run' = [run EXCEPT !.appended = Append(@, cyc.decoded)]
    /\ pc' = "head"
    /\ UNCHANGED <<running, stop, config, last_reading, errors, exc, wire, last_setup, setups, ctl, sample, cyc>>

\* stop_acquisition left out of start_acquisition
stop_acquisition_Skipped ==
    /\ pc = "abort"
    /\ pc' = "finish"
    /\ UNCHANGED <<running, stop, config, last_reading, data_stack, errors, exc, wire, last_setup, setups, ctl, sample, run, cyc>>

\* stop_acquisition: res = self.ask(':ABORT;*STB?'), the write
stop_acquisition ==
    /\ pc = "abort"
    /\ wire' = Append(wire, ":ABORT;*STB?")
    /\ pc' = "abort_read"
    /\ UNCHANGED <<running, stop, config, last_reading, data_stack, errors, exc, last_setup, setups, ctl, sample, run, cyc>>

\* stop_acquisition: the read of the ask and the two prints
AbortRead ==
    /\ pc = "abort_read"
    /\ wire' = Append(wire, Reply)
    /\ pc' = "finish"
    /\ UNCHANGED <<running, stop, config, last_reading, data_stack, errors, exc, last_setup, setups, ctl, sample, run, cyc>>

\* self.running = False; start_acquisition returns and the thread ends
Finish ==
    /\ pc = "finish"
    /\ running' = FALSE
    /\ pc' = "idle"
    /\ UNCHANGED <<stop, config, last_reading, data_stack, errors, exc, wire, last_setup, setups, ctl, sample, run, cyc>>

\* the positions at which the thread writes to or reads from the transport
AtTransport == pc \in {"init", "read", "drain", "drain_read", "abort", "abort_read"} \/ (pc = "fetch" /\ Fetches)

\* a write or a read of the transport raises: nothing in start_acquisition
\* catches it, so the thread ends where it stands
TransportError ==
    /\ AtTransport
    /\ pc' = "failed"
    /\ exc' = "TransportError"
    /\ UNCHANGED <<running, stop, config, last_reading, data_stack, errors, wire, last_setup, setups, ctl, sample, run, cyc>>

Next ==
    \/ get_id
    \/ get_id_read
    \/ Start
    \/ SetStop
    \/ SetRunning
    \/ ClearStop
    \/ WriteInit
    \/ LoopHead
    \/ get_data_array
    \/ FetchRead
    \/ DrainAsk
    \/ DrainRead
    \/ AppendStack
    \/ stop_acquisition
    \/ AbortRead
    \/ Finish
    \/ TransportError

Spec == Init /\ [][Next]_vars

(***************************************************************************)
(* The acquisition with the plot loop of log_thm.py reading the            *)
(* accumulators: two statements, each reading the data_stack attribute as  *)
(* it is bound when the statement executes.                                *)
(***************************************************************************)
item_name == <<"Bx", "By", "Bz", "Temperature">>

ObserverKwargs == {Kwargs(Keys, MaxBlock, 500000, "0.1T", 4, "INTEGER")}

ObserverInit == InitWith(ObserverKwargs)

\* plotdata = [thm.data_stack[key] for key in item_name]
ReadPlotdata ==
    /\ ctl.pc = "main"
    /\ run.n > 0
    /\ ctl.reads < MaxReads
    /\ ctl' = [ctl EXCEPT !.pc = "axes", !.plotdata = [i \in 1..Len(item_name) |-> data_stack[item_name[i]]]]
    /\ UNCHANGED <<running, stop, config, last_reading, data_stack, errors, pc, exc, wire, last_setup, setups, run, cyc, sample>>

\* timeline = thm.data_stack['Timestamp']
ReadTimeline ==
    /\ ctl.pc = "axes"
    /\ ctl' = [ctl EXCEPT !.pc = "main", !.reads = @ + 1, !.timeline = data_stack["Timestamp"]]
    /\ UNCHANGED <<running, stop, config, last_reading, data_stack, errors, pc, exc, wire, last_setup, setups, run, cyc, sample>>

ObserverNext ==
    \/ Next
    \/ ReadPlotdata
    \/ ReadTimeline

ObserverSpec == ObserverInit /\ [][ObserverNext]_vars

(***************************************************************************)
(* The acquisition with a scheduler that lets the thread run: a statement  *)
(* of start_acquisition that can execute does execute.  The driver is      *)
(* constructed with the ASCII format and a block size of one.              *)
(***************************************************************************)
DrainKwargs == {Kwargs(Keys, 1, 500000, "0.1T", 4, "ASCII")}

DrainInit == InitWith(DrainKwargs)

DrainSpec == DrainInit /\ [][Next]_vars /\ WF_vars(AppendStack)

(***************************************************************************)
(* The whole life of a driver object: a Run, then setup and check_error    *)
(* called by the controlling thread once the Run has returned, then        *)
(* further Runs.                                                           *)
(***************************************************************************)
LifeKwargs == {kw \in Profiles : kw.keys = {"average"}}

\* thm.setup(...) after the first Run
SetupBetweenRuns ==
    /\ ctl.pc = "main"
    /\ pc = "idle" /\ run.n = 1
    /\ \E kw \in LifeKwargs : setup(kw, 0)

\* check_error: res = self.ask(':SYSTEM:ERROR?;*STB?'), the write, at the
\* call and in the while loop
check_error ==
    /\ ctl.pc \in {"main", "check"}
    /\ ctl.pc = "main" => (pc = "idle" /\ run.n = 1 /\ ctl.queries = 0)
    /\ ctl.queries < MaxDrain
    /\ wire' = Append(wire, ":SYSTEM:ERROR?;*STB?")
    /\ ctl' = [ctl EXCEPT !.pc = "check_read"]
    /\ UNCHANGED <<running, stop, config, last_reading, data_stack, errors, pc, exc, last_setup, setups, run, cyc, sample>>

\* check_error: the read of the ask, self.errors.append(res) and the test
\* res[0] != '0'; the IndexError of an empty reply returns the caller to
\* its main line
check_error_read ==
    /\ ctl.pc = "check_read"
    /\ \E res \in ErrorReplies :
        /\ errors' = Append(errors, res)
        /\ wire' = Append(wire, Reply)
        /\ ctl' = [ctl EXCEPT !.queries = @ + 1, !.pc = IF Len(res) > 0 /\ res[1] # 48 THEN "check" ELSE "main"]
    /\ UNCHANGED <<running, stop, config, last_reading, data_stack, pc, exc, last_setup, setups, run, cyc, sample>>

LifeNext ==
    \/ Next
    \/ SetupBetweenRuns
    \/ check_error
    \/ check_error_read

LifeSpec == DrainInit /\ [][LifeNext]_vars

(***************************************************************************)
(* The decoders applied on their own: a driver constructed with a block    *)
(* size and a period, then parse_binary_responses on a reply of any layout *)
(* and str_conv on a timestamp and a temperature field, one application    *)
(* on each constructed driver.                                             *)
(***************************************************************************)
DecodeKwargs == {Kwargs(Keys, b, p, "0.1T", 4, "INTEGER") : b \in BlockSizes, p \in {1220, 500000, 27900000}}

DecodeInit == InitWith(DecodeKwargs)

\* self.parse_binary_responses('fetch', res) up to the status test
ApplyBinaryDecoder ==
    \E layout \in Layouts(block_size), c \in {CycleA(block_size), CycleB(block_size)}, status \in {0, 4} :
        LET res == MixedReply(layout.lead, layout.hs, c.x, c.y, c.z, c.ts, c.temp, status)
            d == parse_binary_responses(last_reading, block_size, period, res)
        IN  /\ sample = NoSample
            /\ last_reading' = d.lr
            /\ sample' = [op |-> "binary", layout |-> layout, c |-> c, status |-> status, res |-> res, exc |-> d.exc, drain |-> d.drain]
            /\ UNCHANGED <<running, stop, config, data_stack, errors, pc, exc, wire, last_setup, setups, run, cyc, ctl>>

\* self.str_conv(field, 'Timestamp') and self.str_conv(field, 'Temperature')
ApplyStrConv ==
    \E t \in TimestampFields, c \in TemperatureFields :
        /\ sample = NoSample
        /\ sample' = [op |-> "str_conv", t |-> t, c |-> c, Timestamp |-> str_conv(block_size, period, t, "Timestamp"), Temperature |-> str_conv(block_size, period, c, "Temperature")]
        /\ UNCHANGED <<running, stop, config, last_reading, data_stack, errors, pc, exc, wire, last_setup, setups, run, cyc, ctl>>

DecodeNext ==
    \/ ApplyBinaryDecoder
    \/ ApplyStrConv

DecodeSpec == DecodeInit /\ [][DecodeNext]_vars

\* the configuration alone: construction with any keywords, then setup
\* calls with any keywords
SetupInit == InitWith(AllKwargs)

SetupNext ==
    \/ SetupAny
    \/ SetupFails

SetupSpec == SetupInit /\ [][SetupNext]_vars

\* self.parse_ascii_responses('fetch', res) up to the status test, applied
\* once to a reply of block_size values per axis
ApplyAsciiDecoder ==
    \E c \in {CycleA(block_size), CycleB(block_size)}, status \in {0, 4} :
        LET res == AsciiReply(c.x, c.y, c.z, c.ts, c.temp, status)
            d == parse_ascii_responses(last_reading, block_size, period, res)
        IN  /\ sample = NoSample
            /\ last_reading' = d.lr
            /\ sample' = [op |-> "ascii", c |-> c, status |-> status, res |-> res, exc |-> d.exc, drain |-> d.drain]
            /\ UNCHANGED <<running, stop, config, data_stack, errors, pc, exc, wire, last_setup, setups, run, cyc, ctl>>

\* calls that supply no keyword, the block size, or every keyword but the
\* period
FetchKwargs == {kw \in Profiles : kw.keys = {} \/ "block_size" \in kw.keys}

FetchInit == InitWith(FetchKwargs)

\* a setup call that sets the block size, or leaves it
SetupBlock == \E kw \in FetchKwargs : setup(kw, 0)

\* the fetch command and the decoder of its replies: construction, setup
\* calls, and the ASCII decoder applied
FetchNext ==
    \/ SetupBlock
    \/ SetupFails
    \/ ApplyAsciiDecoder

FetchSpec == FetchInit /\ [][FetchNext]_vars

(***************************************************************************)
(* Properties                                                              *)
(***************************************************************************)
RECURSIVE Concatenation(_, _)
\* the values of kind k of a sequence of sample cycles, in cycle order
Concatenation(cycles, k) == IF Len(cycles) = 0 THEN <<>> ELSE cycles[1][k] \o Concatenation(Tail(cycles), k)

\* the number of times cmd was written since the Run began
Written(cmd) == Cardinality({i \in 1..Len(wire) : wire[i] = cmd})

RECURSIVE LastIndex(_, _, _)
\* the highest index up to i at which s holds c, 0 when there is none
LastIndex(s, c, i) == IF i = 0 THEN 0 ELSE IF s[i] = c THEN i ELSE LastIndex(s, c, i - 1)

\* the status field of a fetch reply: what follows its last ';', without
\* the line end
StatusField(res) == Remove(SubSeq(res, LastIndex(res, 59, Len(res)) + 1, Len(res)), 10)

\* the replies logged by the drain of the current cycle
Drained == SubSeq(errors, cyc.errors_before + 1, Len(errors))

\* C1: during a Run that fetches, after N completed iterations every
\* accumulator holds exactly N * block_size values, the concatenation of the
\* N decoded cycles in the order they were fetched.
C1_AccumulatorIsRunCycles ==
    (Alive /\ ~run.crashed /\ format \in {"ASCII", "INTEGER"}) =>
        \A k \in KindSet :
            /\ Len(data_stack[k]) = Len(run.appended) * block_size
            /\ data_stack[k] = Concatenation(run.appended, k)

\* C2: the error log grows by one entry per error query of the cycle; a
\* reply with status '4' is followed by error queries up to and including
\* the first reply that starts with '0'; a reply with another status is
\* followed by no error query.
C2_DrainLog ==
    /\ Len(errors) = cyc.errors_before + cyc.queries
    /\ Written(":SYSTEM:ERROR?;*STB?") >= cyc.queries
    /\ (cyc.fetched /\ StatusField(cyc.res) # <<52>>) => (cyc.queries = 0 /\ pc \notin {"drain", "drain_read"})
    /\ (cyc.fetched /\ StatusField(cyc.res) = <<52>>) =>
        /\ pc \in {"drain", "drain_read", "append", "head", "abort", "abort_read", "finish", "idle", "failed"}
        /\ \A i \in 1..(Len(Drained) - 1) : Len(Drained[i]) > 0 /\ Drained[i][1] # 48
        /\ pc \in {"drain", "drain_read"} => \A i \in 1..Len(Drained) : Len(Drained[i]) > 0 /\ Drained[i][1] # 48
        /\ pc \in {"append", "head", "abort", "abort_read", "finish", "idle"} => (cyc.queries >= 1 /\ Len(Last(Drained)) > 0 /\ Last(Drained)[1] = 48)

\* C2 witness: a drain of two queries has ended on a reply that starts
\* with '0'
C2_Witness == pc = "append" /\ cyc.fetched /\ StatusField(cyc.res) = <<52>> /\ cyc.queries = 2

\* C3: once the controller has written stop = True to a started thread, the
\* loop begins no further fetch cycle.
C3_StopNeverLost == ~run.late_cycle

C5_NoHashLeavesStack ==
    (cyc.got /\ format = "INTEGER" /\ Find(cyc.res, 35) < 0) =>
        /\ pc = "failed"
        /\ exc = "ValueError"
        /\ data_stack = cyc.stack_before

\* C5 witness: a reply without '#' arrived when the accumulators held a
\* cycle
C5_Witness == cyc.got /\ format = "INTEGER" /\ Find(cyc.res, 35) < 0 /\ Len(cyc.stack_before["Bx"]) > 0 /\ pc = "failed"

\* last_reading holds the values of one cycle: every key is what the decode
\* of this cycle's reply assigned, or every key is what it was when the
\* cycle began
OneCycle == (cyc.fetched /\ last_reading = cyc.decoded) \/ last_reading = cyc.reading_before

\* C6: a malformed fetch reply does not end the loop with the driver left
\* running, and does not leave last_reading with the values of two cycles.
C6_MalformedKeepsState ==
    (pc = "failed" /\ cyc.got /\ ~cyc.fetched) => (~running /\ OneCycle)

\* C7: after a transport failure in a Run, running is False.
C7_TransportFailureIdle == (pc = "failed" /\ exc = "TransportError") => ~running

\* C8: when the first cycle of a Run is about to be appended every
\* accumulator is empty.
C8_FreshRunStartsEmpty ==
    (pc = "append" /\ ~run.crashed /\ Len(run.appended) = 0) => \A k \in KindSet : data_stack[k] = <<>>

\* the period of the timer command for each valid period a caller supplies,
\* and for the default
TimerText(p) ==
    CASE p = 1220 -> "0.000122"
      [] p = 1224 -> "0.000122"
      [] p = 500000 -> "0.050000"
      [] p = 5000000 -> "0.500000"
      [] p = 27900000 -> "2.790000"

\* the periodic-trigger commands of a setup call, in order
TriggerCommands(p, bs) == <<":TRIGger:SOURce TIMer", ":TRIGger:TIMer " \o TimerText(p) \o "S", ":TRIG:COUNT " \o ToString(bs), ":INIT:CONTINUOUS ON">>

\* the latest setup call returned and was given a period
PeriodSupplied == last_setup.exc = "none" /\ "period" \in last_setup.kw.keys

\* ... and was a call made after construction
PeriodSuppliedLater == PeriodSupplied /\ setups > 0

\* C9 as stated: a supplied period inside the bounds is followed by the four
\* periodic-trigger commands in order; a supplied period outside the bounds
\* is followed by the warning and by no periodic-trigger command.
C9_OutOfRangeOmitsTrigger ==
    PeriodSuppliedLater =>
        IF PeriodValid(last_setup.kw.period)
        THEN SubSeq(last_setup.writes, 4, Len(last_setup.writes)) = TriggerCommands(last_setup.kw.period, block_size)
        ELSE /\ Len(last_setup.writes) = 3
             /\ \E i \in 1..Len(last_setup.prints) : last_setup.prints[i] = "Invalid trigger period value."

\* C9 amended: a supplied period inside the bounds is followed by the four
\* periodic-trigger commands in order, the period written with six
\* decimals, and by no warning; a supplied period outside the bounds is
\* followed by the warning and by the same four commands with the default
\* period 0.5.
C9_TriggerCommands ==
    PeriodSupplied =>
        /\ Len(last_setup.writes) = 7
        /\ IF PeriodValid(last_setup.kw.period)
           THEN /\ SubSeq(last_setup.writes, 4, 7) = TriggerCommands(last_setup.kw.period, block_size)
                /\ last_setup.prints = <<>>
           ELSE /\ SubSeq(last_setup.writes, 4, 7) = TriggerCommands(defaults.period, block_size)
                /\ last_setup.prints = <<"Invalid trigger period value.", "Setting to default...">>

\* C9 witness: a setup call after construction was given 2.7900001 s
C9_Witness == PeriodSupplied /\ setups > 0 /\ last_setup.kw.period = 27900001 /\ Len(last_setup.writes) = 7

\* C10: the stored period lies in the bounds, and after a setup call that
\* was given an out-of-range period it is the default.
C10_PeriodInBounds ==
    /\ PeriodValid(period)
    /\ ("period" \in last_setup.kw.keys /\ ~PeriodValid(last_setup.kw.period)) => period = defaults.period
    /\ ("period" \in last_setup.kw.keys /\ PeriodValid(last_setup.kw.period)) => period = last_setup.kw.period

\* C10 witness: a setup call after construction was given 121.9 us
C10_Witness == setups > 0 /\ "period" \in last_setup.kw.keys /\ last_setup.kw.period = 1219 /\ period = defaults.period

\* the configuration fields as stored now
Now == Stored(block_size, period, range, average, format)

\* C11: after a setup call every field whose keyword was absent holds its
\* prior value, a supplied range outside ranges leaves the stored range at
\* its prior value, every field other than the period holds the supplied or
\* the prior value, and the period holds the supplied value, the prior
\* value or the default, the default only when the supplied value is
\* outside the bounds.
C11_SetupFrame ==
    LET kw == last_setup.kw
        prior == last_setup.prior
    IN  /\ \A k \in Keys \ kw.keys : Now[k] = prior[k]
        /\ ("range" \in kw.keys /\ kw.range \notin {ranges[i] : i \in 1..Len(ranges)}) => range = prior.range
        /\ \A k \in (kw.keys \ {"period"}) : Now[k] \in {kw[k], prior[k]}
        /\ "period" \in kw.keys => period \in {kw.period, prior.period, defaults.period}
        /\ ("period" \in kw.keys /\ period \notin {kw.period, prior.period}) => ~PeriodValid(kw.period)

\* C11 witness: a setup call after construction was given only the range
\* 5T, with another range and a changed block size stored before it
C11_Witness == setups > 0 /\ last_setup.kw.keys = {"range"} /\ last_setup.kw.range = "5T" /\ range = "3T" /\ Now = last_setup.prior /\ block_size # defaults.block_size

\* the commands that ask the device for a reply
IsRequest(cmd) == cmd \in {fetch_cmd, ":SYSTEM:ERROR?;*STB?", ":ABORT;*STB?", "*IDN?"}

\* a request was written and its reply was not read
Outstanding == Len(wire) > 0 /\ IsRequest(Last(wire))

\* C12: on the transport every request is followed at once by the read of
\* its reply and every read follows a request; while a request is
\* outstanding exactly one thread stands at the read of its reply (or the
\* acquisition thread was ended by an exception of that read); the
\* controlling thread is inside get_id only while no acquisition thread
\* exists; at most one fetch cycle of a Run is not yet appended, and none at
\* the loop head.
C12_Alternation ==
    /\ \A i \in 1..(Len(wire) - 1) : IsRequest(wire[i]) => wire[i + 1] = Reply
    /\ \A i \in 1..Len(wire) : wire[i] = Reply => (i > 1 /\ IsRequest(wire[i - 1]))
    /\ Outstanding => ((pc \in {"read", "drain_read", "abort_read", "failed"}) # (ctl.pc = "idn"))
    /\ ctl.pc = "idn" => (~Alive /\ run.n = 0)
    /\ (run.n > 0 /\ Fetches) => Written(fetch_cmd) \in {Len(run.appended), Len(run.appended) + 1}
    /\ (pc = "head" /\ format \in {"ASCII", "INTEGER"}) => Written(fetch_cmd) = Len(run.appended)

\* C12 witness: a Run has exchanged two fetches, an error query and stands
\* at the read of the abort reply, after the identification query
C12_Witness == pc = "abort_read" /\ ctl.pc = "main" /\ Written(fetch_cmd) = 2 /\ Written(":SYSTEM:ERROR?;*STB?") >= 1 /\ Outstanding

\* a binary reply was decoded on its own
BinarySample == sample.op = "binary"

\* ... and its three blocks share one header length and start at index 0
UniformSample == BinarySample /\ sample.layout \in UniformLayouts(block_size)

\* the three axes of last_reading are the encoded integer sequences
AxesDecoded == sample.exc = "none" /\ last_reading["Bx"] = sample.c.x /\ last_reading["By"] = sample.c.y /\ last_reading["Bz"] = sample.c.z

\* C13: a well-formed binary reply with one header length H in 1..9 for its
\* three blocks decodes to the three encoded sequences of block_size
\* integers in the order Bx, By, Bz, to a Timestamp of block_size instants
\* that ends at the first tail field, and to block_size copies of the second
\* tail field; the status field asks for the drain exactly when it is '4'.
C13_BinaryDecode ==
    UniformSample =>
        /\ AxesDecoded
        /\ \A k \in KindSet : Len(last_reading[k]) = block_size
        /\ Last(last_reading["Timestamp"]) = sample.c.ts \div TimeUnitNs
        /\ last_reading["Temperature"] = [i \in 1..block_size |-> sample.c.temp]
        /\ sample.drain = (sample.status = 4)

\* C13 witness: a reply with header length 9 and negative values was
\* decoded for a block size above one
C13_Witness == UniformSample /\ sample.layout.hs[1] = MaxHeaderLength /\ block_size > 1 /\ last_reading["Bz"][2] < 0 /\ sample.status = 4

\* C18: the axes decode to the encoded sequences for every layout of the
\* reply, also with bytes before the first '#' and with header lengths that
\* differ between the blocks.
C18_OwnHeader == BinarySample => AxesDecoded

\* C19: str_conv turns a timestamp field t into block_size instants, the
\* last one t, the first one t - (block_size - 1) * period, consecutive ones
\* period apart, and a temperature field c into block_size copies of c.
C19_TimestampReconstruction ==
    sample.op = "str_conv" =>
        LET ts == sample.Timestamp.res
            t == DigitsValue(sample.t) \div TimeUnitNs
        IN  /\ sample.Timestamp.exc = "none" /\ sample.Temperature.exc = "none"
            /\ Len(ts) = block_size
            /\ ts[block_size] = t
            /\ ts[1] = t - (block_size - 1) * period
            /\ \A i \in 1..(block_size - 1) : ts[i + 1] - ts[i] = period
            /\ sample.Temperature.res = [i \in 1..block_size |-> IntValue(sample.c)]

\* C19 witness: a timestamp of 1.5 s was expanded over more than one
\* instant with the longest period, and the temperature is negative
C19_Witness == sample.op = "str_conv" /\ block_size > 1 /\ period = 27900000 /\ sample.t = Decimal(1500000000) /\ sample.Timestamp.res[1] < 0 /\ sample.Temperature.res[1] < 0

\* the positions of start_acquisition from the write of ':INIT' to the
\* statement after the read of the abort reply
InRun == pc \in {"init", "head", "fetch", "read", "drain", "drain_read", "append", "abort", "abort_read", "finish"}

\* C14: in a Run ':INIT' is the first command and is sent once, nothing but
\* the read of its reply follows ':ABORT;*STB?', running is True from the
\* write of ':INIT' until the abort reply has been read, no abort is sent
\* while a cycle is between its fetch and its append, and when the abort is
\* sent every fetch command of the Run has been followed by its append.
C14_RunOrder ==
    /\ (run.n > 0 /\ Len(wire) > 0) => (wire[1] = ":INIT" /\ Written(":INIT") = 1)
    /\ \A i \in 1..Len(wire) : wire[i] = ":ABORT;*STB?" => \A j \in (i + 1)..Len(wire) : wire[j] = Reply
    /\ InRun => running
    /\ pc \in {"fetch", "read", "drain", "drain_read", "append"} => Written(":ABORT;*STB?") = 0
    /\ (Written(":ABORT;*STB?") = 1 /\ format \in {"ASCII", "INTEGER"}) => Written(fetch_cmd) = Len(run.appended)

\* C14 witness: stop was written after the second cycle had begun, and the
\* Run has ended after both appends and the abort
C14_Witness == pc = "idle" /\ run.n = 1 /\ ~run.late_cycle /\ Written(fetch_cmd) = 2 /\ Len(run.appended) = 2 /\ Written(":ABORT;*STB?") = 1 /\ Last(wire) = Reply

\* the drain of the cycle has received a reply that starts with '0'
ZeroAnswered == cyc.queries > 0 /\ Len(Last(Drained)) > 0 /\ Last(Drained)[1] = 48

\* the thread is inside the drain
InDrain == pc \in {"drain", "drain_read"}

\* C15: while the drain is in progress nothing of the cycle is appended;
\* a cycle with status '4' reaches its append only after a reply that
\* starts with '0'; a step taken inside the drain stays in the drain, goes
\* to the append or ends the thread by an exception, whatever the stop flag
\* is; and once the device has answered with such a reply the loop returns
\* to its head.
C15_DrainBeforeAppend ==
    /\ [](InDrain => (data_stack = cyc.stack_before /\ ~ZeroAnswered))
    /\ []((pc = "append" /\ cyc.fetched /\ StatusField(cyc.res) = <<52>>) => (ZeroAnswered /\ data_stack = cyc.stack_before))
    /\ [][InDrain => pc' \in {"drain", "drain_read", "append", "failed"}]_vars
    /\ ((pc = "append" /\ ZeroAnswered) ~> (pc = "head"))

\* C15 witness: the drain has ended on a reply that starts with '0' after
\* a reply with an error code, with the stop flag set during the drain
C15_Witness == pc = "append" /\ ZeroAnswered /\ cyc.queries = 2 /\ stop /\ data_stack = cyc.stack_before

C17_AppendOnly == [][Len(errors') >= Len(errors) /\ SubSeq(errors', 1, Len(errors)) = errors]_vars

\* C17 witness: a second Run is draining errors after a first Run, a setup
\* call and a check_error call have each been made, with entries logged by
\* check_error and by a drain
C17_Witness == run.n = 2 /\ setups > 0 /\ ctl.queries > 0 /\ pc = "drain" /\ Len(errors) > ctl.queries /\ cyc.errors_before > 0

SetupStep == setups' # setups

\* C21: a setup call leaves running, stop, the accumulators, last_reading,
\* the error log and the position of the acquisition thread as they were;
\* the commands of a call that returned begin with the format, the range
\* and the averaging command, in that order, for the stored values, and
\* none of its commands is ':INIT' or the fetch command; a fetch command is
\* on the transport only after start_acquisition was called.
C21_SetupDoesNotStart ==
    /\ [][SetupStep => UNCHANGED <<running, stop, data_stack, last_reading, errors, pc, wire>>]_vars
    /\ [](last_setup.exc = "none" =>
            /\ SubSeq(last_setup.writes, 1, 3) = <<":FORMAT:DATA " \o format, ":SENSe:FLUX:RANGe " \o range, ":AVERAGE:COUNT " \o ToString(average)>>
            /\ \A i \in 1..Len(last_setup.writes) : last_setup.writes[i] \notin {":INIT", fetch_cmd})
    /\ [](Written(fetch_cmd) > 0 => run.n > 0)

\* C21 witness: setup was called after a Run that had filled the
\* accumulators and the error log, with the stop flag still set, and no
\* thread runs
C21_Witness == setups > 0 /\ run.n = 1 /\ pc = "idle" /\ ~running /\ stop /\ Len(data_stack["Bx"]) > 0 /\ Len(errors) > 0 /\ Len(last_setup.writes) = 7

\* C22: a cycle that reaches its append has read and decoded a reply to
\* its own fetch command, and last_reading is the decode of that reply.
C22_AppendsFetched == pc = "append" => (cyc.fetched /\ last_reading = cyc.decoded)

====
